---- MODULE Spec2Model ----
(***************************************************************************)
(* A model of ncli_utils/utils.py: the duration parser time_to_seconds,    *)
(* the status classifier status_to_s, the entity classes HostOrService,    *)
(* Host and Service with their attach operations, and Service.pp.          *)
(*                                                                         *)
(* Python values are records [t, s, id]: t is the value's type, s the      *)
(* characters of a string (a sequence of one-character strings), id the    *)
(* position of an instance in the heap (hosts, services).  A raised        *)
(* exception is a record [type, name, value, where].  The strings of the   *)
(* model are ASCII, and no field value holds a tab or a line break.        *)
(***************************************************************************)
EXTENDS Integers, Sequences, FiniteSets, TLC

VARIABLES hosts, services, last, inp, ret

vars == <<hosts, services, last, inp, ret>>

(***************************************************************************)
(* Bounds of the model.                                                    *)
(***************************************************************************)
\* longest duration token tried
MaxTokenLen == 3
\* most required fields left out of one attribute mapping
MaxMissing == 2
\* most Host instances, and most Service instances, built in one run
MaxHosts == 2
MaxServices == 2

(***************************************************************************)
(* Python values and exceptions.                                           *)
(***************************************************************************)
PyNone == [t |-> "NoneType", s |-> <<>>, id |-> 0]

PyStr(cs) == [t |-> "str", s |-> cs, id |-> 0]

PyUnicode(cs) == [t |-> "unicode", s |-> cs, id |-> 0]

HostRef(i) == [t |-> "Host", s |-> <<>>, id |-> i]

ServiceRef(i) == [t |-> "Service", s |-> <<>>, id |-> i]

NoExc == [type |-> "none", name |-> "", value |-> PyNone, where |-> ""]

\* raise KeyError(key) from a dict lookup; name is a field key, value any other key
KeyError(name, value, where) ==
    [type |-> "KeyError", name |-> name, value |-> value, where |-> where]

\* value has no attribute called name
AttributeError(name, value, where) ==
    [type |-> "AttributeError", name |-> name, value |-> value, where |-> where]

\* the global called name is not defined
NameError(name, where) ==
    [type |-> "NameError", name |-> name, value |-> PyNone, where |-> where]

Ok(v) == [exc |-> NoExc, val |-> v]

Raise(e) == [exc |-> e, val |-> PyNone]

IsString(v) == v.t \in {"str", "unicode"}

Min(a, b) == IF a <= b THEN a ELSE b

Spaces(n) == [i \in 1..n |-> " "]

\* s[:n]
Slice(cs, n) == SubSeq(cs, 1, Min(n, Len(cs)))

\* ljust as a fixed-width cut: pads, and shortens what is longer than width
ljust_cut(cs, width) ==
    IF Len(cs) >= width THEN SubSeq(cs, 1, width) ELSE cs \o Spaces(width - Len(cs))

\* s.ljust(width): pads on the right, never shortens
ljust(cs, width) == IF Len(cs) >= width THEN cs ELSE cs \o Spaces(width - Len(cs))

\* value.decode('utf-8'): a method of str and unicode only; on ASCII text the
\* result is the unicode string of the same characters
decode(v, where) ==
    IF IsString(v) THEN Ok(PyUnicode(v.s))
    ELSE Raise(AttributeError("decode", v, where))

(***************************************************************************)
(* time_to_seconds                                                         *)
(***************************************************************************)
DigitChars == <<"0", "1", "2", "3", "4", "5", "6", "7", "8", "9">>

IsDigit(c) == \E d \in 1..10 : DigitChars[d] = c

DigitValue(c) == (CHOOSE d \in 1..10 : DigitChars[d] = c) - 1

UnitChars == {"w", "d", "h", "m", "s"}

\* the names the module binds at its top level (import sys, the three
\* functions, the three classes)
module_globals ==
    {"sys", "time_to_seconds", "trim", "status_to_s", "HostOrService", "Host",
     "Service"}

\* int(val) of a run of decimal digits; Python's integers do not overflow
RECURSIVE int(_)
int(cs) ==
    IF cs = <<>> THEN 0
    ELSE 10 * int(SubSeq(cs, 1, Len(cs) - 1)) + DigitValue(cs[Len(cs)])

multiplier(denom) ==
    CASE denom = "w" -> 604800
      [] denom = "d" -> 86400
      [] denom = "h" -> 3600
      [] denom = "m" -> 60
      [] denom = "s" -> 1

\* re.match(r'^(\d+)([wdhms])?$', inp): \d+ takes the longest run of digits,
\* the unit is optional, and $ matches at the end of the string and also just
\* before a line break that ends the string
re_match(cs) ==
    LET body == IF cs # <<>> /\ cs[Len(cs)] = "\n"
                THEN SubSeq(cs, 1, Len(cs) - 1) ELSE cs
        n    == CHOOSE k \in 0..Len(body) :
                    /\ \A i \in 1..k : IsDigit(body[i])
                    /\ (k = Len(body) \/ ~IsDigit(body[k + 1]))
        rest == SubSeq(body, n + 1, Len(body))
    IN  IF n >= 1 /\ (rest = <<>> \/ (Len(rest) = 1 /\ rest[1] \in UnitChars))
        THEN [matched |-> TRUE, val |-> SubSeq(body, 1, n), denom |-> rest]
        ELSE [matched |-> FALSE, val |-> <<>>, denom |-> <<>>]

RetPending == [kind |-> "pending", val |-> 0, exc |-> NoExc]

RetNone == [kind |-> "None", val |-> 0, exc |-> NoExc]

RetInt(n) == [kind |-> "int", val |-> n, exc |-> NoExc]

RetRaise(e) == [kind |-> "raise", val |-> 0, exc |-> e]

time_to_seconds(cs) ==
    IF "re" \notin module_globals THEN RetRaise(NameError("re", "time_to_seconds"))
    ELSE LET match == re_match(cs)
         IN  IF ~match.matched THEN RetNone
             ELSE IF match.denom = <<>> THEN RetInt(int(match.val))
             ELSE RetInt(int(match.val) * multiplier(match.denom[1]))

(***************************************************************************)
(* status_to_s                                                             *)
(***************************************************************************)
status_map ==
    (PyStr(<<"0">>) :> PyStr(<<"O", "K">>))
    @@ (PyStr(<<"1">>) :> PyStr(<<"W", "A", "R", "N">>))
    @@ (PyStr(<<"2">>) :> PyStr(<<"C", "R", "I", "T">>))
    @@ (PyStr(<<"3">>) :> PyStr(<<"U", "N", "K">>))

\* status_map.get(state, "UNK"): an unknown code absorbed by a default
status_to_s_default(state) ==
    IF state \in DOMAIN status_map THEN Ok(status_map[state])
    ELSE Ok(PyStr(<<"U", "N", "K">>))

\* status_map[state]: a key the dict does not hold raises KeyError(state)
status_to_s(state) ==
    IF state \in DOMAIN status_map THEN Ok(status_map[state])
    ELSE Raise(KeyError("", state, "status_to_s"))

(***************************************************************************)
(* HostOrService, Host, Service                                            *)
(***************************************************************************)
attrs ==
    <<"current_state", "plugin_output",
      "notifications_enabled", "last_check", "last_notification",
      "active_checks_enabled", "problem_has_been_acknowledged",
      "last_hard_state", "scheduled_downtime_depth", "performance_data",
      "last_state_change", "current_attempt", "max_attempts">>

AttrNames == {attrs[i] : i \in 1..Len(attrs)}

\* the fields __init__ copies from the mapping after current_state, in the
\* order of its assignments
copied ==
    <<"plugin_output", "notifications_enabled", "last_check",
      "last_notification", "active_checks_enabled",
      "problem_has_been_acknowledged", "last_hard_state",
      "scheduled_downtime_depth", "performance_data", "last_state_change",
      "current_attempt", "max_attempts">>

\* the first attributes[k] of the assignments that raises, 0 when none does
FirstAbsent(attributes) ==
    IF \A i \in 1..Len(copied) : copied[i] \in DOMAIN attributes THEN 0
    ELSE CHOOSE i \in 1..Len(copied) :
             /\ copied[i] \notin DOMAIN attributes
             /\ \A j \in 1..(i - 1) : copied[j] \in DOMAIN attributes

\* __init__ with attributes.get(k) for the copied fields: an absent field is
\* filled with None
HostOrService__init__get(name, attributes) ==
    LET where == "HostOrService.__init__"
        uname == decode(name, where)
    IN  IF uname.exc # NoExc THEN uname
        ELSE IF "current_state" \notin DOMAIN attributes
        THEN Raise(KeyError("current_state", PyNone, where))
        ELSE LET state == status_to_s(attributes["current_state"])
             IN  IF state.exc # NoExc THEN state
                 ELSE Ok([k \in {"name"} \cup AttrNames |->
                            IF k = "name" THEN uname.val
                            ELSE IF k = "current_state" THEN state.val
                            ELSE IF k \in DOMAIN attributes THEN attributes[k]
                            ELSE PyNone])

\* __init__ that looks up every field before it classifies current_state
HostOrService__init__presence_first(name, attributes) ==
    LET where == "HostOrService.__init__"
        uname == decode(name, where)
        absent == FirstAbsent(attributes)
    IN  IF uname.exc # NoExc THEN uname
        ELSE IF "current_state" \notin DOMAIN attributes
        THEN Raise(KeyError("current_state", PyNone, where))
        ELSE IF absent # 0
        THEN Raise(KeyError(copied[absent], PyNone, where))
        ELSE LET state == status_to_s(attributes["current_state"])
             IN  IF state.exc # NoExc THEN state
                 ELSE Ok([k \in {"name"} \cup AttrNames |->
                            IF k = "name" THEN uname.val
                            ELSE IF k = "current_state" THEN state.val
                            ELSE attributes[k]])

\* HostOrService.__init__(self, name, attributes): the instance's attributes,
\* or the exception of the first statement that raises
HostOrService__init__(name, attributes) ==
    LET where == "HostOrService.__init__"
        uname == decode(name, where)
    IN  IF uname.exc # NoExc THEN uname
        ELSE IF "current_state" \notin DOMAIN attributes
        THEN Raise(KeyError("current_state", PyNone, where))
        ELSE LET state == status_to_s(attributes["current_state"])
                 absent == FirstAbsent(attributes)
             IN  IF state.exc # NoExc THEN state
                 ELSE IF absent # 0
                 THEN Raise(KeyError(copied[absent], PyNone, where))
                 ELSE Ok([k \in {"name"} \cup AttrNames |->
                            IF k = "name" THEN uname.val
                            ELSE IF k = "current_state" THEN state.val
                            ELSE attributes[k]])

EmptyDict == [k \in {} |-> 0]

\* Host.__init__(self, name, attributes)
Host__init__(name, attributes) ==
    LET base == HostOrService__init__(name, attributes)
    IN  IF base.exc # NoExc THEN base
        ELSE Ok(base.val @@ ("services" :> EmptyDict))

\* Service.__init__(self, name, attributes, host = None)
Service__init__(name, attributes, host) ==
    LET base == HostOrService__init__(name, attributes)
        uhost == decode(host, "Service.__init__")
    IN  IF base.exc # NoExc THEN base
        ELSE IF uhost.exc # NoExc THEN uhost
        ELSE Ok(base.val @@ ("host" :> uhost.val))

\* getattr(obj, name) on an instance: its own attributes, then its class's
ClassAttrs(t) ==
    CASE t = "Host" -> {"attrs", "__init__", "attach_service"}
      [] t = "Service" -> {"attrs", "__init__", "attach_host", "pp"}
      [] OTHER -> {}

HasAttr(t, obj, name) == name \in DOMAIN obj \/ name \in ClassAttrs(t)

\* Host.attach_service(self, svc): self.services[svc.service] = svc, where svc
\* is the reference svcref to the Service instance svc
attach_service(self, svcref, svc) ==
    IF ~HasAttr("Service", svc, "service")
    THEN Raise(AttributeError("service", svcref, "Host.attach_service"))
    ELSE Ok([self EXCEPT !.services =
                [k \in DOMAIN self.services \cup {svc["service"]} |->
                    IF k = svc["service"] THEN svcref ELSE self.services[k]]])

\* attach_host that also takes the host's name for its own when given a string
attach_host_renames(self, host) ==
    Ok([self EXCEPT !.host = host, !.name = IF IsString(host) THEN host ELSE @])

\* Service.attach_host(self, host): self.host = host
attach_host(self, host) == Ok([self EXCEPT !.host = host])

\* value.ljust(width): a method of str and unicode only
py_ljust(v, width, where) ==
    IF IsString(v) THEN Ok(ljust(v.s, width))
    ELSE Raise(AttributeError("ljust", v, where))

\* x == "1" and a or b, for non-empty strings a
AndOr(v, a, b) == IF IsString(v) /\ v.s = <<"1">> THEN a ELSE b

\* Service.pp(self): the printed text, line break included
pp(self) ==
    LET hostcol == py_ljust(self.host, 25, "Service.pp")
    IN  IF hostcol.exc # NoExc THEN hostcol
        ELSE Ok(hostcol.val \o <<"\t">>
                \o ljust(Slice(self.name.s, 35), 35) \o <<"\t">>
                \o ljust(Slice(self.plugin_output.s, 35), 35) \o <<"\t">>
                \o self.current_state.s \o <<"\t">>
                \o AndOr(self.problem_has_been_acknowledged, <<"A", "C", "K">>, <<" ">>)
                \o <<"\t">>
                \o AndOr(self.notifications_enabled, <<" ">>, <<"M", "U", "T", "E", "D">>)
                \o <<"\n">>)

(***************************************************************************)
(* Inputs.                                                                 *)
(***************************************************************************)
\* n characters: the letter c, then the digits 1, 2, ... 9, 0, 1, ...
Label(c, n) == [i \in 1..n |-> IF i = 1 THEN c ELSE DigitChars[((i - 1) % 10) + 1]]

TokenChars == {"0", "1", "9", "w", "d", "h", "m", "s", "x", "-", "\n"}

Tokens == UNION {[1..n -> TokenChars] : n \in 0..MaxTokenLen}

Codes ==
    {PyStr(<<"0">>), PyStr(<<"1">>), PyStr(<<"2">>), PyStr(<<"3">>),
     PyStr(<<"4">>), PyStr(<<>>), PyStr(<<"O", "K">>)}

Outputs == {PyStr(Label("o", 5)), PyStr(Label("o", 50))}

Flags == {PyStr(<<"0">>), PyStr(<<"1">>)}

ServiceNames == {PyStr(Label("s", 4)), PyStr(Label("t", 36))}

HostNames == {PyStr(Label("h", 3)), PyStr(Label("g", 26))}

\* the host name of the runs that build several entities
OwnerNames == {PyStr(Label("h", 3))}

FieldIndex(k) == CHOOSE i \in 1..Len(attrs) : attrs[i] = k

FieldLetters == <<"a", "b", "c", "d", "e", "f", "g", "h", "i", "j", "k", "l", "m">>

\* a complete attribute mapping of the feed; the fields the model does not
\* vary each hold a value of their own
FullAttributes(code, output, ack, notif) ==
    [k \in AttrNames |->
        CASE k = "current_state" -> code
          [] k = "plugin_output" -> output
          [] k = "problem_has_been_acknowledged" -> ack
          [] k = "notifications_enabled" -> notif
          [] OTHER -> PyStr(<<"v", FieldLetters[FieldIndex(k)]>>)]

Without(attributes, absent) == [k \in DOMAIN attributes \ absent |-> attributes[k]]

AbsentSets == {S \in SUBSET AttrNames : Cardinality(S) <= MaxMissing}

Mappings ==
    {Without(FullAttributes(code, output, ack, notif), absent) :
        code \in Codes, output \in Outputs, ack \in Flags, notif \in Flags,
        absent \in AbsentSets}

SampleAttributes ==
    FullAttributes(PyStr(<<"2">>), PyStr(Label("o", 50)), PyStr(<<"1">>), PyStr(<<"0">>))

HostRefs == {HostRef(i) : i \in 1..Len(hosts)}

ServiceRefs == {ServiceRef(i) : i \in 1..Len(services)}

Deref(ref) == IF ref.t = "Host" THEN hosts[ref.id] ELSE services[ref.id]

\* the methods a caller invokes without arguments: the summary rendering pp and
\* the verbose rendering, which the source does not define under any name; the
\* model calls it renderAll
RenderMethods == {"pp", "renderAll"}

(***************************************************************************)
(* Calls.  last records the latest call: its arguments and what it raised  *)
(* or printed.                                                             *)
(***************************************************************************)
Call(op, self, name, attributes, arg, exc, out) ==
    [op |-> op, self |-> self, name |-> name, attributes |-> attributes,
     arg |-> arg, exc |-> exc, out |-> out]

NoCall == Call("none", PyNone, PyNone, EmptyDict, PyNone, NoExc, <<>>)

\* Host(name, attributes)
NewHost(name, attributes) ==
    /\ Len(hosts) < MaxHosts
    /\ LET r == Host__init__(name, attributes)
       IN  /\ hosts' = IF r.exc = NoExc THEN Append(hosts, r.val) ELSE hosts
           /\ last' = Call("Host", IF r.exc = NoExc THEN HostRef(Len(hosts) + 1) ELSE PyNone,
                           name, attributes, PyNone, r.exc, <<>>)
    /\ UNCHANGED <<services, inp, ret>>

\* Service(name, attributes, host); host is PyNone when the caller leaves it out
NewService(name, attributes, host) ==
    /\ Len(services) < MaxServices
    /\ LET r == Service__init__(name, attributes, host)
       IN  /\ services' = IF r.exc = NoExc THEN Append(services, r.val) ELSE services
           /\ last' = Call("Service",
                           IF r.exc = NoExc THEN ServiceRef(Len(services) + 1) ELSE PyNone,
                           name, attributes, host, r.exc, <<>>)
    /\ UNCHANGED <<hosts, inp, ret>>

\* hosts[h].attach_service(services[s])
AttachService(h, s) ==
    /\ LET r == attach_service(hosts[h], ServiceRef(s), services[s])
       IN  /\ hosts' = IF r.exc = NoExc THEN [hosts EXCEPT ![h] = r.val] ELSE hosts
           /\ last' = Call("attach_service", HostRef(h), PyNone, EmptyDict,
                           ServiceRef(s), r.exc, <<>>)
    /\ UNCHANGED <<services, inp, ret>>

\* services[s].attach_host(host)
AttachHost(s, host) ==
    /\ LET r == attach_host(services[s], host)
       IN  /\ services' = IF r.exc = NoExc THEN [services EXCEPT ![s] = r.val] ELSE services
           /\ last' = Call("attach_host", ServiceRef(s), PyNone, EmptyDict, host, r.exc, <<>>)
    /\ UNCHANGED <<hosts, inp, ret>>

\* ref.method(): the attribute is looked up on the instance and its class, and
\* pp is the only method either class defines that takes no argument
Invoke(ref, method) ==
    /\ LET r == IF HasAttr(ref.t, Deref(ref), method) /\ method = "pp"
                THEN pp(Deref(ref))
                ELSE Raise(AttributeError(method, ref, "caller"))
       IN  last' = Call(method, ref, PyNone, EmptyDict, PyNone, r.exc,
                        IF r.exc = NoExc THEN r.val ELSE <<>>)
    /\ UNCHANGED <<hosts, services, inp, ret>>

\* status_to_s(state), called on its own
Classify(state) ==
    /\ LET r == status_to_s(state)
       IN  last' = Call("status_to_s", PyNone, PyNone, EmptyDict, state, r.exc,
                        IF r.exc = NoExc THEN r.val.s ELSE <<>>)
    /\ UNCHANGED <<hosts, services, inp, ret>>

\* time_to_seconds(inp)
Parse ==
    /\ ret = RetPending
    /\ ret' = time_to_seconds(inp)
    /\ UNCHANGED <<hosts, services, last, inp>>

(***************************************************************************)
(* Specifications.                                                         *)
(***************************************************************************)
Init ==
    /\ hosts = <<>>
    /\ services = <<>>
    /\ last = NoCall
    /\ inp = <<>>
    /\ ret = RetPending

\* Spec: hosts and services built from one complete mapping, attached to one
\* another and rendered
Next ==
    \/ \E name \in OwnerNames : NewHost(name, SampleAttributes)
    \/ \E name \in ServiceNames, host \in OwnerNames \cup {PyNone} :
           NewService(name, SampleAttributes, host)
    \/ \E h \in 1..Len(hosts), s \in 1..Len(services) : AttachService(h, s)
    \/ \E s \in 1..Len(services), host \in OwnerNames \cup HostRefs : AttachHost(s, host)
    \/ \E ref \in HostRefs \cup ServiceRefs, method \in RenderMethods : Invoke(ref, method)

Spec == Init /\ [][Next]_vars

\* SpecConstruct: one constructor call on any mapping of the feed (the
\* constructors read nothing but their arguments), then the entity rendered
Fresh == hosts = <<>> /\ services = <<>> /\ last = NoCall

NextConstruct ==
    \/ /\ Fresh
       /\ \E name \in ServiceNames, attributes \in Mappings : NewHost(name, attributes)
    \/ /\ Fresh
       /\ \E name \in ServiceNames, attributes \in Mappings, host \in HostNames \cup {PyNone} :
              NewService(name, attributes, host)
    \/ \E state \in Codes : Classify(state)
    \/ \E ref \in HostRefs \cup ServiceRefs, method \in RenderMethods : Invoke(ref, method)

SpecConstruct == Init /\ [][NextConstruct]_vars

\* SpecDuration: time_to_seconds applied to one token
InitDuration ==
    /\ hosts = <<>>
    /\ services = <<>>
    /\ last = NoCall
    /\ inp \in Tokens
    /\ ret = RetPending

NextDuration == Parse

SpecDuration == InitDuration /\ [][NextDuration]_vars

(***************************************************************************)
(* Properties.  The definitions below state what the documentation says,   *)
(* in its own terms: they read the state and the values of the model, and  *)
(* none of the operators that model a function or a method of the source.  *)
(***************************************************************************)
ValidCodes == {PyStr(<<"0">>), PyStr(<<"1">>), PyStr(<<"2">>), PyStr(<<"3">>)}

SeverityName(code) ==
    CASE code.s = <<"0">> -> <<"O", "K">>
      [] code.s = <<"1">> -> <<"W", "A", "R", "N">>
      [] code.s = <<"2">> -> <<"C", "R", "I", "T">>
      [] code.s = <<"3">> -> <<"U", "N", "K">>

RequiredFields ==
    <<"current_state", "plugin_output", "notifications_enabled", "last_check",
      "last_notification", "active_checks_enabled",
      "problem_has_been_acknowledged", "last_hard_state",
      "scheduled_downtime_depth", "performance_data", "last_state_change",
      "current_attempt", "max_attempts">>

Required == {RequiredFields[i] : i \in 1..Len(RequiredFields)}

Constructed == last.op \in {"Host", "Service"}

Absent == Required \ DOMAIN last.attributes

CodeGiven == "current_state" \in DOMAIN last.attributes

CodeValid == CodeGiven /\ last.attributes["current_state"] \in ValidCodes

MissingField(f) ==
    /\ last.exc.type = "KeyError"
    /\ last.exc.where = "HostOrService.__init__"
    /\ last.exc.name = f

UnknownStatusCode(code) ==
    /\ last.exc.type = "KeyError"
    /\ last.exc.where = "status_to_s"
    /\ last.exc.value = code

NoEntityBuilt == last.self = PyNone /\ hosts = <<>> /\ services = <<>>

\* the text cut at each tab
RECURSIVE Columns(_)
Columns(cs) ==
    IF \A i \in 1..Len(cs) : cs[i] # "\t" THEN <<cs>>
    ELSE LET k == CHOOSE i \in 1..Len(cs) :
                      cs[i] = "\t" /\ \A j \in 1..(i - 1) : cs[j] # "\t"
         IN  <<SubSeq(cs, 1, k - 1)>> \o Columns(SubSeq(cs, k + 1, Len(cs)))

\* col is text followed by the blanks that bring it to width at least
PaddedTo(col, text, width) ==
    /\ Len(col) >= width
    /\ Len(col) >= Len(text)
    /\ Len(col) = width \/ Len(col) = Len(text)
    /\ \A i \in 1..Len(col) : col[i] = IF i <= Len(text) THEN text[i] ELSE " "

\* the first n characters of text, all of it when it is shorter
FirstChars(text, n) == [i \in 1..(IF Len(text) < n THEN Len(text) ELSE n) |-> text[i]]

\* the printed text is one line: it ends with its only line break
OneLine(out) ==
    /\ out # <<>>
    /\ \A i \in 1..Len(out) : (out[i] = "\n") = (i = Len(out))

(* C1: Host.attach_service is last-write-wins keyed by the service's name:  *)
(* every call completes without error and leaves the host's mapping as it   *)
(* was but for the entry of the attached service's name, which is now the   *)
(* attached service; so the mapping holds one entry per name attached so    *)
(* far, the latest attached of that name.                                   *)
AttachLastWriteWinsC1 ==
    [][last'.op = "attach_service" =>
          LET h == last'.self.id
              key == services[last'.arg.id].name
          IN  /\ last'.exc = NoExc
              /\ DOMAIN hosts'[h].services = DOMAIN hosts[h].services \cup {key}
              /\ hosts'[h].services[key] = last'.arg
              /\ \A k \in DOMAIN hosts[h].services \ {key} :
                     hosts'[h].services[k] = hosts[h].services[k]]_vars

(* C2: a Service built from a complete mapping with the host argument left  *)
(* out is built, with an absent host reference; attach_host(h) then sets the *)
(* host reference to h.                                                     *)
UnattachedServiceC2 ==
    /\ (last.op = "Service" /\ last.arg = PyNone /\ Absent = {} /\ CodeValid) =>
           /\ last.exc = NoExc
           /\ last.self.t = "Service"
           /\ services[last.self.id].host = PyNone
    /\ last.op = "attach_host" =>
           /\ last.exc = NoExc
           /\ services[last.self.id].host = last.arg

(* C3: a Host, or a Service given its host's name, built from a mapping     *)
(* that lacks exactly one required field (the state code valid) fails with  *)
(* the missing-field error naming that field and no entity is built; built  *)
(* from a complete mapping with a valid state code it succeeds, every field *)
(* but current_state holds the mapping's value and current_state holds the  *)
(* severity name.  (A Service built without a host argument is C2's case.)  *)
RequiredFieldsC3 ==
    Constructed =>
        /\ (Cardinality(Absent) = 1 /\ (CodeGiven => CodeValid)) =>
               /\ \A f \in Absent : MissingField(f)
               /\ NoEntityBuilt
        /\ (Absent = {} /\ CodeValid /\ (last.op = "Service" => IsString(last.arg))) =>
               /\ last.exc = NoExc
               /\ last.self.t = last.op
               /\ \A f \in Required \ {"current_state"} :
                      Deref(last.self)[f] = last.attributes[f]
               /\ Deref(last.self)["current_state"].s
                      = SeverityName(last.attributes["current_state"])

WitnessC3 ==
    /\ last.op = "Service"
    /\ Absent = {"max_attempts"}
    /\ CodeValid
    /\ MissingField("max_attempts")
    /\ NoEntityBuilt

(* C4: time_to_seconds returns digits x multiplier[unit] for a token of one *)
(* or more digits and at most one unit letter of w, d, h, m, s, and None    *)
(* for every other string.                                                  *)
UnitSeconds(c) ==
    CASE c = "w" -> 604800 [] c = "d" -> 86400 [] c = "h" -> 3600
      [] c = "m" -> 60 [] c = "s" -> 1

DecimalDigits == {"0", "1", "2", "3", "4", "5", "6", "7", "8", "9"}

DigitsOf(cs) ==
    IF cs # <<>> /\ cs[Len(cs)] \in DecimalDigits THEN cs ELSE SubSeq(cs, 1, Len(cs) - 1)

IsToken(cs) ==
    /\ DigitsOf(cs) # <<>>
    /\ \A i \in 1..Len(DigitsOf(cs)) : DigitsOf(cs)[i] \in DecimalDigits
    /\ DigitsOf(cs) = cs \/ cs[Len(cs)] \in {"w", "d", "h", "m", "s"}

RECURSIVE Decimal(_)
Decimal(cs) ==
    IF cs = <<>> THEN 0
    ELSE 10 * Decimal(SubSeq(cs, 1, Len(cs) - 1))
         + (CHOOSE d \in 0..9 : DigitChars[d + 1] = cs[Len(cs)])

Seconds(cs) ==
    IF DigitsOf(cs) = cs THEN Decimal(cs) ELSE Decimal(DigitsOf(cs)) * UnitSeconds(cs[Len(cs)])

DurationC4 ==
    ret.kind # "pending" =>
        IF IsToken(inp) THEN ret.kind = "int" /\ ret.val = Seconds(inp)
        ELSE ret.kind = "None"

(* C5: status_to_s maps "0" to OK, "1" to WARN, "2" to CRIT, "3" to UNK and  *)
(* fails with the unknown-status-code error on any other input; a           *)
(* constructor given a current_state outside those four fails with that     *)
(* error and builds no entity.                                              *)
ClassifyC5 ==
    /\ last.op = "status_to_s" =>
           IF last.arg \in ValidCodes
           THEN last.exc = NoExc /\ last.out = SeverityName(last.arg)
           ELSE UnknownStatusCode(last.arg)
    /\ (Constructed /\ CodeGiven /\ ~CodeValid) =>
           /\ UnknownStatusCode(last.attributes["current_state"])
           /\ NoEntityBuilt

WitnessC5 ==
    /\ last.op = "Host"
    /\ Absent = {}
    /\ last.attributes["current_state"] = PyStr(<<"4">>)
    /\ UnknownStatusCode(PyStr(<<"4">>))
    /\ NoEntityBuilt

(* C6: Service.pp of a Service whose host reference is a host name prints   *)
(* one line of six tab-separated columns: the host name padded to at least  *)
(* 25; the first 35 characters of the service name padded to 35; the first  *)
(* 35 characters of the plugin output padded to 35; the severity name;      *)
(* "ACK" if problem_has_been_acknowledged is "1", else a blank; a blank if   *)
(* notifications_enabled is "1", else "MUTED".                              *)
SummaryLineC6 ==
    (last.op = "pp" /\ last.self.t = "Service" /\ IsString(Deref(last.self).host)) =>
        LET svc == Deref(last.self)
            cols == Columns(SubSeq(last.out, 1, Len(last.out) - 1))
        IN  /\ last.exc = NoExc
            /\ OneLine(last.out)
            /\ Len(cols) = 6
            /\ PaddedTo(cols[1], svc.host.s, 25)
            /\ PaddedTo(cols[2], FirstChars(svc.name.s, 35), 35)
            /\ Len(cols[2]) = 35
            /\ PaddedTo(cols[3], FirstChars(svc.plugin_output.s, 35), 35)
            /\ Len(cols[3]) = 35
            /\ cols[4] \in {<<"O", "K">>, <<"W", "A", "R", "N">>, <<"C", "R", "I", "T">>,
                            <<"U", "N", "K">>}
            /\ cols[4] = svc.current_state.s
            /\ cols[5] = IF svc.problem_has_been_acknowledged.s = <<"1">>
                         THEN <<"A", "C", "K">> ELSE <<" ">>
            /\ cols[6] = IF svc.notifications_enabled.s = <<"1">>
                         THEN <<" ">> ELSE <<"M", "U", "T", "E", "D">>

WitnessC6 ==
    /\ last.op = "pp"
    /\ last.self.t = "Service"
    /\ last.exc = NoExc
    /\ Len(Deref(last.self).host.s) > 25
    /\ Len(Deref(last.self).name.s) > 35
    /\ Len(Deref(last.self).plugin_output.s) = 50
    /\ Deref(last.self).problem_has_been_acknowledged.s = <<"1">>
    /\ Deref(last.self).notifications_enabled.s = <<"0">>

(* C7: attach_service changes nothing but the called Host's service mapping *)
(* (its name and required fields, the other Hosts and every Service stay as *)
(* they were), and attach_host changes nothing but the called Service's     *)
(* host reference (its name and required fields, the other Services and     *)
(* every Host stay as they were).                                           *)
EntityFields(obj) == [k \in {"name"} \cup Required |-> obj[k]]

FrameC7 ==
    [][/\ last'.op = "attach_service" =>
              /\ services' = services
              /\ Len(hosts') = Len(hosts)
              /\ \A i \in 1..Len(hosts) :
                     /\ EntityFields(hosts'[i]) = EntityFields(hosts[i])
                     /\ i # last'.self.id => hosts'[i] = hosts[i]
       /\ last'.op = "attach_host" =>
              /\ hosts' = hosts
              /\ Len(services') = Len(services)
              /\ \A j \in 1..Len(services) :
                     /\ EntityFields(services'[j]) = EntityFields(services[j])
                     /\ j # last'.self.id => services'[j] = services[j]]_vars

WitnessC7 ==
    /\ last.op = "attach_host"
    /\ last.exc = NoExc
    /\ Len(hosts) = 2
    /\ Len(services) = 2
    /\ IsString(last.arg)
    /\ services[last.self.id].host = last.arg
    /\ services[last.self.id].name.s # last.arg.s
    /\ \E j \in 1..Len(services) : services[j].host.t = "Host"

(* C8: verbose rendering exists for Host and for Service: it prints one     *)
(* line per required field in the declared order, the field name followed   *)
(* by ':' padded to 25 characters, a tab and the value, and then one blank  *)
(* line.                                                                    *)
RECURSIVE Lines(_)
Lines(cs) ==
    IF \A i \in 1..Len(cs) : cs[i] # "\n" THEN <<cs>>
    ELSE LET k == CHOOSE i \in 1..Len(cs) :
                      cs[i] = "\n" /\ \A j \in 1..(i - 1) : cs[j] # "\n"
         IN  <<SubSeq(cs, 1, k - 1)>> \o Lines(SubSeq(cs, k + 1, Len(cs)))

VerboseC8 ==
    last.op = "renderAll" =>
        LET lines == Lines(last.out)
            n == Len(RequiredFields)
        IN  /\ last.exc = NoExc
            /\ Len(lines) = n + 2
            /\ lines[n + 1] = <<>> /\ lines[n + 2] = <<>>
            /\ \A i \in 1..n :
                   LET cols == Columns(lines[i])
                   IN  /\ Len(cols) = 2
                       /\ Len(cols[1]) >= 25
                       /\ \E c \in 1..Len(cols[1]) :
                              /\ cols[1][c] = ":"
                              /\ \A b \in (c + 1)..Len(cols[1]) : cols[1][b] = " "
                       /\ cols[2] = Deref(last.self)[RequiredFields[i]].s

(* C9: Service.pp succeeds after any sequence of attach_host calls, also    *)
(* after attach_host with a Host entity, and its first column is the owning *)
(* host's name padded to 25 characters.                                     *)
OwnerName(svc) == IF IsString(svc.host) THEN svc.host.s ELSE hosts[svc.host.id].name.s

SummaryAfterAttachC9 ==
    (last.op = "pp" /\ last.self.t = "Service") =>
        /\ last.exc = NoExc
        /\ PaddedTo(Columns(last.out)[1], OwnerName(Deref(last.self)), 25)

(* C10, as stated: a constructor given a mapping that lacks a required      *)
(* field other than current_state fails with the missing-field error naming *)
(* a missing field whatever current_state is, and the unknown-status-code   *)
(* error is reported only when every required field is present.             *)
PresenceFirstC10 ==
    Constructed =>
        /\ Absent \ {"current_state"} # {} => \E f \in Absent : MissingField(f)
        /\ last.exc.where = "status_to_s" => Absent = {}

(* C10, amended: current_state is looked up and classified before any other *)
(* field is looked up.  A mapping without current_state fails with the      *)
(* missing-field error naming current_state; a mapping whose current_state  *)
(* is outside "0".."3" fails with the unknown-status-code error, whatever   *)
(* other fields it lacks; a mapping with a valid current_state that lacks   *)
(* other fields fails with the missing-field error naming the first of them *)
(* in declared order.                                                       *)
ClassifyFirstC10 ==
    Constructed =>
        /\ ~CodeGiven => MissingField("current_state")
        /\ (CodeGiven /\ ~CodeValid) =>
               UnknownStatusCode(last.attributes["current_state"])
        /\ (CodeValid /\ Absent # {}) =>
               \E i \in 1..Len(RequiredFields) :
                   /\ RequiredFields[i] \in Absent
                   /\ \A j \in 1..(i - 1) : RequiredFields[j] \notin Absent
                   /\ MissingField(RequiredFields[i])
        /\ Absent # {} => NoEntityBuilt

WitnessC10 ==
    /\ last.op = "Service"
    /\ Absent = {"plugin_output", "max_attempts"}
    /\ last.attributes["current_state"] = PyStr(<<"4">>)
    /\ UnknownStatusCode(PyStr(<<"4">>))
    /\ NoEntityBuilt

====
